---- MODULE Spec2Model ----
(***************************************************************************)
(* Model of the CONSORT deep-research agent (src/Agent/agent): the         *)
(* LangGraph state graph built by build_graph, the six node functions of   *)
(* nodes.py and the two conditional-edge routers of graph.py.              *)
(*                                                                         *)
(* One run of the compiled graph is a sequence of node executions.  The    *)
(* variable pc names the node that executes next; every action is one      *)
(* node execution followed by the edge (fixed or conditional) that leaves  *)
(* the node.  A node returns a partial update that LangGraph merges into   *)
(* the state key by key, so a key the node does not return is UNCHANGED.   *)
(* Python indexes consort_items from 0; sequences here start at 1, so the  *)
(* item at cursor idx is consort_items[idx + 1].                           *)
(***************************************************************************)
EXTENDS Integers, Sequences, FiniteSets, TLC

\* ---------------------------------------------------------------- bounds
MaxItems == 2          \* longest checklist explored
CallCap  == 4          \* the per-item call counters saturate here
MaxQueries == 2        \* most queries in one multi_query_search call
MaxHits  == 2          \* longest ranking the store holds for one query
MaxTerms == 2          \* most terms in one hydrate_terms call

\* ------------------------------------------------------ program constants
MaxHops == 3           \* nodes.py:264  hop_count >= 3

\* --------------------------------------------------------- input domains
ItemIds == {"1a", "1b"}                 \* ids a checklist may contain
Checklists == UNION {[1..n -> ItemIds] : n \in 0..MaxItems}

NoKey == "<missing>"                    \* the reply object has no such key
KnownVerdicts == {"sufficient", "need_more", "need_web"}
VerdictFields == KnownVerdicts \cup {"", "maybe", NoKey}

Terms     == {"ANCOVA"}
TermLists == {<< >>, <<"ANCOVA">>}
Definitions == {"snippet", "No definition found"}
FollowUps == {<< >>, <<"follow-up">>}
PlannedLists == {<< >>, <<"q1">>, <<"q1", "q2">>}
RawPlan == "raw planner text"
Drafts == {"", "prose"}

Chunk(t, s) == [text |-> t, score |-> s]
\* what multi_query_search can hand back: distinct texts, descending score
StoreResults == { << >>,
                  <<Chunk("x", 2)>>,
                  <<Chunk("y", 3), Chunk("x", 1)>> }

\* what the chat model can answer to the evaluate prompt
EvaluatorReplies ==
    [kind : {"object"}, verdict : VerdictFields,
     follow_up_queries : FollowUps, unfamiliar_terms : TermLists]
    \cup
    [kind : {"unparsable", "nonobject"}, verdict : {NoKey},
     follow_up_queries : {<< >>}, unfamiliar_terms : {<< >>}]

\* what the chat model can answer to the planning prompt
PlannerReplies ==
    [kind : {"list"}, queries : PlannedLists]
    \cup [kind : {"unparsable", "nonlist"}, queries : {<< >>}]

Nodes == {"plan_research", "retrieve", "evaluate", "web_search",
          "synthesize", "generate_latex"}

VARIABLES
    consort_items,        \* AgentState.consort_items (the ids, in order)
    current_item_index,   \* AgentState.current_item_index
    research_queries,     \* AgentState.research_queries
    retrieved_chunks,     \* AgentState.retrieved_chunks
    unfamiliar_terms,     \* AgentState.unfamiliar_terms
    web_search_results,   \* AgentState.web_search_results (term -> text)
    evaluation_result,    \* AgentState.evaluation_result
    hop_count,            \* AgentState.hop_count
    section_drafts,       \* AgentState.section_drafts (id -> prose)
    latex_sections,       \* AgentState.latex_sections (id -> fragment)
    final_latex,          \* AgentState.final_latex
    pc,                   \* the node that runs next, "END" or "raised"
    eval_reply,           \* history: kind and verdict of the last reply
    calls,                \* history: node executions for the current item
    only_need_more,       \* history: every reply so far for the current
                          \* item was an object with verdict need_more
    last_follow_ups,      \* history: follow_up_queries of the last reply
    hydration,            \* history: the last web_search execution for the
                          \* current item: was hydrate_terms called, and
                          \* what it returned
    mq,                   \* one call of multi_query_search (its locals)
    hy,                   \* one call of hydrate_terms (its locals)
    lx,                   \* one call of sections_to_latex (its locals)
    sv,                   \* one request to /api/generate (its event stream)
    gs,                   \* one call of generate_section (its retry loop)
    orc,                  \* one call of the data generator's run
    ck                    \* one call of chunk_text (its locals)

vars == <<consort_items, current_item_index, research_queries,
          retrieved_chunks, unfamiliar_terms, web_search_results,
          evaluation_result, hop_count, section_drafts, latex_sections,
          final_latex, pc, eval_reply, calls, only_need_more,
          last_follow_ups, hydration, mq, hy,
          lx, sv, gs, orc, ck>>

\* the calls that are explored on their own, outside a run of the graph
harness == <<mq, hy, lx, sv, gs, orc, ck>>

agent_state == <<consort_items, current_item_index, research_queries,
                 retrieved_chunks, unfamiliar_terms, web_search_results,
                 evaluation_result, hop_count, section_drafts,
                 latex_sections, final_latex>>

\* ------------------------------------------------------------- helpers
EmptyDict == [k \in {} |-> ""]

\* slip: d winning on a shared key
DictMerge_KeepOld(d, e) ==
    [k \in DOMAIN d \cup DOMAIN e |-> IF k \in DOMAIN d THEN d[k] ELSE e[k]]

\* {**d, **e}: the keys of both, e winning on a shared key
DictMerge(d, e) ==
    [k \in DOMAIN d \cup DOMAIN e |-> IF k \in DOMAIN e THEN e[k] ELSE d[k]]

Total == Len(consort_items)
InRange(idx) == idx >= 0 /\ idx < Total
ItemId(idx) == consort_items[idx + 1]
AllItemIds == {consort_items[i] : i \in 1..Total}

Bump(n) == IF n < CallCap THEN n + 1 ELSE CallCap
NoCalls == [retrieve |-> 0, evaluate |-> 0, web_search |-> 0]
NoReply == [kind |-> "none", verdict |-> NoKey]
NoHydration == [called |-> FALSE, new_defs |-> EmptyDict]
NoCall == [pc |-> "idle"]               \* no such call is in progress

\* ---------------------------------------------------- pure code fragments
\* plan_research, nodes.py:139-146: a JSON list is taken as it is, anything
\* else becomes the one-element list holding the raw text
ParseQueries(reply) ==
    IF reply.kind = "list" THEN reply.queries ELSE <<RawPlan>>

\* multi_query_search, client.py:126-144: one search per query; no query,
\* no fragment
SearchOutcomes(queries) ==
    IF queries = << >> THEN {<< >>} ELSE StoreResults

\* slip: the seen-text test left out
MergeChunks_NoDedup(existing, chunk_dicts) == existing \o chunk_dicts

\* slip: the new fragments are put in front of the old ones
MergeChunks_Prepend(existing, chunk_dicts) ==
    SelectSeq(chunk_dicts,
              LAMBDA cd : \A i \in 1..Len(existing) : existing[i].text # cd.text)
        \o existing

\* retrieve, nodes.py:191-197: append the fragments whose text is new
RECURSIVE MergeChunks(_, _)
MergeChunks(existing, chunk_dicts) ==
    IF chunk_dicts = << >> THEN existing
    ELSE LET cd == Head(chunk_dicts)
             seen == {existing[i].text : i \in 1..Len(existing)}
         IN MergeChunks(IF cd.text \in seen THEN existing
                                            ELSE Append(existing, cd),
                        Tail(chunk_dicts))

\* slip: a missing verdict key defaults to need_more
ParseVerdict_DefaultNeedMore(reply) ==
    IF reply.kind = "unparsable" THEN "sufficient"
    ELSE IF reply.verdict = NoKey THEN "need_more"
    ELSE reply.verdict

\* evaluate, nodes.py:255-261: unparsable text is replaced by the default
\* record; result.get("verdict", "sufficient")
ParseVerdict(reply) ==
    IF reply.kind = "unparsable" \/ reply.verdict = NoKey
    THEN "sufficient"
    ELSE reply.verdict

\* slip: > in place of >=
ForceVerdict_OffByOne(verdict, hops) ==
    IF verdict = "need_more" /\ hops > MaxHops THEN "sufficient" ELSE verdict

\* slip: the ceiling applied one hop early
ForceVerdict_Early(verdict, hops) ==
    IF verdict = "need_more" /\ hops >= MaxHops - 1 THEN "sufficient"
    ELSE verdict

\* slip: the hop test dropped, every need_more is overridden
ForceVerdict_Always(verdict, hops) ==
    IF verdict = "need_more" THEN "sufficient" ELSE verdict

\* evaluate, nodes.py:263-266: the hop ceiling
ForceVerdict(verdict, hops) ==
    IF verdict = "need_more" /\ hops >= MaxHops THEN "sufficient" ELSE verdict

\* slip: the two non-default branches exchanged
route_after_evaluate_Swapped(verdict) ==
    IF verdict = "need_more" THEN "web_search"
    ELSE IF verdict = "need_web" THEN "retrieve"
    ELSE "synthesize"

\* graph.py:37-45
route_after_evaluate(verdict) ==
    IF verdict = "need_more" THEN "retrieve"
    ELSE IF verdict = "need_web" THEN "web_search"
    ELSE "synthesize"

\* graph.py:48-55
route_after_synthesize(idx, total) ==
    IF idx < total THEN "plan_research" ELSE "generate_latex"

\* slip: the follow-up queries are added to the old ones
PendingQueries_Extends(follow_ups, queries) == queries \o follow_ups

\* evaluate, nodes.py:284-285: follow-up queries, if any, replace the list
PendingQueries(follow_ups, queries) ==
    IF follow_ups # << >> THEN follow_ups ELSE queries

\* slip: an empty draft is not stored
StoreDraft_SkipEmpty(drafts, id, draft) ==
    IF draft = "" THEN drafts
    ELSE [k \in DOMAIN drafts \cup {id} |-> IF k = id THEN draft ELSE drafts[k]]

\* slip: the earlier drafts are not copied into the new mapping
StoreDraft_Fresh(drafts, id, draft) == [k \in {id} |-> draft]

\* synthesize, nodes.py:367-369: drafts = {**section_drafts}; drafts[id] = draft
StoreDraft(drafts, id, draft) ==
    [k \in DOMAIN drafts \cup {id} |-> IF k = id THEN draft ELSE drafts[k]]

\* ------------------------------------------------------------------ Init
\* graph.py:133-148 create_initial_state, entry point plan_research
Init ==
    /\ consort_items \in Checklists
    /\ current_item_index = 0
    /\ research_queries = << >>
    /\ retrieved_chunks = << >>
    /\ unfamiliar_terms = << >>
    /\ web_search_results = EmptyDict
    /\ evaluation_result = ""
    /\ hop_count = 0
    /\ section_drafts = EmptyDict
    /\ latex_sections = EmptyDict
    /\ final_latex = ""
    /\ pc = "plan_research"
    /\ eval_reply = NoReply
    /\ calls = NoCalls
    /\ only_need_more = TRUE
    /\ last_follow_ups = << >>
    /\ hydration = NoHydration
    /\ mq = NoCall
    /\ hy = NoCall
    /\ lx = NoCall
    /\ sv = NoCall
    /\ gs = NoCall
    /\ orc = NoCall
    /\ ck = NoCall

\* --------------------------------------------------------------- actions
\* slip: the evidence of the previous item is carried into the new one
plan_research_KeepsEvidence ==
    /\ pc = "plan_research"
    /\ UNCHANGED harness
    /\ IF ~InRange(current_item_index)
       THEN /\ pc' = "raised"
            /\ UNCHANGED <<agent_state, eval_reply, calls, only_need_more,
                   last_follow_ups, hydration>>
       ELSE /\ \E reply \in PlannerReplies :
                   research_queries' = ParseQueries(reply)
            /\ retrieved_chunks' = retrieved_chunks
            /\ hop_count' = 0
            /\ evaluation_result' = ""
            /\ unfamiliar_terms' = << >>
            /\ web_search_results' = web_search_results
            /\ pc' = "retrieve"
            /\ eval_reply' = NoReply
            /\ calls' = NoCalls
            /\ only_need_more' = TRUE
            /\ last_follow_ups' = << >>
            /\ hydration' = NoHydration
            /\ UNCHANGED <<consort_items, current_item_index, section_drafts,
                           latex_sections, final_latex>>

\* slip: the term definitions are emptied with the other per-item fields
plan_research_ClearsDefinitions ==
    /\ pc = "plan_research"
    /\ UNCHANGED harness
    /\ IF ~InRange(current_item_index)
       THEN /\ pc' = "raised"
            /\ UNCHANGED <<agent_state, eval_reply, calls, only_need_more,
                   last_follow_ups, hydration>>
       ELSE /\ \E reply \in PlannerReplies :
                   research_queries' = ParseQueries(reply)
            /\ retrieved_chunks' = << >>
            /\ hop_count' = 0
            /\ evaluation_result' = ""
            /\ unfamiliar_terms' = << >>
            /\ web_search_results' = EmptyDict
            /\ pc' = "retrieve"
            /\ eval_reply' = NoReply
            /\ calls' = NoCalls
            /\ only_need_more' = TRUE
            /\ last_follow_ups' = << >>
            /\ hydration' = NoHydration
            /\ UNCHANGED <<consort_items, current_item_index, section_drafts,
                           latex_sections, final_latex>>

\* NODE 1, nodes.py:105-162, then the edge plan_research -> retrieve.
\* consort_items[idx] raises IndexError when the cursor is out of range.
plan_research ==
    /\ pc = "plan_research"
    /\ UNCHANGED harness
    /\ IF ~InRange(current_item_index)
       THEN /\ pc' = "raised"
            /\ UNCHANGED <<agent_state, eval_reply, calls, only_need_more,
                   last_follow_ups, hydration>>
       ELSE /\ \E reply \in PlannerReplies :
                   research_queries' = ParseQueries(reply)
            /\ retrieved_chunks' = << >>
            /\ hop_count' = 0
            /\ evaluation_result' = ""
            /\ unfamiliar_terms' = << >>
            /\ web_search_results' = web_search_results
            /\ pc' = "retrieve"
            /\ eval_reply' = NoReply
            /\ calls' = NoCalls
            /\ only_need_more' = TRUE
            /\ last_follow_ups' = << >>
            /\ hydration' = NoHydration
            /\ UNCHANGED <<consort_items, current_item_index, section_drafts,
                           latex_sections, final_latex>>

\* slip: a hop that brings no fragment is not counted
retrieve_CountsOnlyHits ==
    /\ pc = "retrieve"
    /\ UNCHANGED harness
    /\ calls' = [calls EXCEPT !.retrieve = Bump(@)]
    /\ \/ /\ \E chunks \in SearchOutcomes(research_queries) :
              /\ retrieved_chunks' = MergeChunks(retrieved_chunks, chunks)
              /\ hop_count' = IF chunks = << >> THEN hop_count
                                                ELSE hop_count + 1
          /\ pc' = "evaluate"
          /\ UNCHANGED <<consort_items, current_item_index, research_queries,
                         unfamiliar_terms, web_search_results,
                         evaluation_result, section_drafts, latex_sections,
                         final_latex, eval_reply, only_need_more,
                         last_follow_ups, hydration>>
       \/ /\ research_queries # << >>
          /\ pc' = "raised"
          /\ UNCHANGED <<agent_state, eval_reply, only_need_more,
                         last_follow_ups, hydration>>

\* NODE 2, nodes.py:169-202, then the edge retrieve -> evaluate.
\* Neither retrieve nor multi_query_search nor search catches anything: an
\* exception of the embedding or Qdrant call (made once per query) leaves
\* the node, and with it the run.
retrieve ==
    /\ pc = "retrieve"
    /\ UNCHANGED harness
    /\ calls' = [calls EXCEPT !.retrieve = Bump(@)]
    /\ \/ /\ \E chunks \in SearchOutcomes(research_queries) :
                  retrieved_chunks' = MergeChunks(retrieved_chunks, chunks)
          /\ hop_count' = hop_count + 1
          /\ pc' = "evaluate"
          /\ UNCHANGED <<consort_items, current_item_index, research_queries,
                         unfamiliar_terms, web_search_results,
                         evaluation_result, section_drafts, latex_sections,
                         final_latex, eval_reply, only_need_more,
                   last_follow_ups, hydration>>
       \/ /\ research_queries # << >>
          /\ pc' = "raised"
          /\ UNCHANGED <<agent_state, eval_reply, only_need_more,
                   last_follow_ups, hydration>>

\* NODE 3, nodes.py:209-287, then the conditional edge of graph.py:85-93.
\* A reply that is JSON but not an object has no .get: AttributeError.
evaluate ==
    /\ pc = "evaluate"
    /\ UNCHANGED harness
    /\ \E reply \in EvaluatorReplies :
         /\ eval_reply' = [kind |-> reply.kind, verdict |-> reply.verdict]
         /\ last_follow_ups' = reply.follow_up_queries
         /\ hydration' = hydration
         /\ calls' = [calls EXCEPT !.evaluate = Bump(@)]
         /\ only_need_more' = (only_need_more /\ reply.kind = "object"
                                              /\ reply.verdict = "need_more")
         /\ IF reply.kind = "nonobject"
            THEN /\ pc' = "raised"
                 /\ UNCHANGED agent_state
            ELSE LET verdict == ForceVerdict(ParseVerdict(reply), hop_count)
                     follow_ups == reply.follow_up_queries
                 IN /\ evaluation_result' = verdict
                    /\ unfamiliar_terms' = reply.unfamiliar_terms
                    /\ research_queries' = PendingQueries(follow_ups,
                                                          research_queries)
                    /\ pc' = route_after_evaluate(verdict)
                    /\ UNCHANGED <<consort_items, current_item_index,
                                   retrieved_chunks, web_search_results,
                                   hop_count, section_drafts, latex_sections,
                                   final_latex>>

\* slip: with no term to look up, an empty mapping is returned
web_search_EmptyClears ==
    /\ pc = "web_search"
    /\ UNCHANGED harness
    /\ IF unfamiliar_terms = << >>
       THEN /\ web_search_results' = EmptyDict
            /\ hydration' = NoHydration
            /\ UNCHANGED evaluation_result
       ELSE /\ \E new_defs \in [{unfamiliar_terms[i] :
                                   i \in 1..Len(unfamiliar_terms)}
                                -> Definitions] :
                /\ web_search_results' = DictMerge(web_search_results,
                                                   new_defs)
                /\ hydration' = [called |-> TRUE, new_defs |-> new_defs]
            /\ evaluation_result' = "sufficient"
    /\ pc' = "evaluate"
    /\ calls' = [calls EXCEPT !.web_search = Bump(@)]
    /\ UNCHANGED <<consort_items, current_item_index, research_queries,
                   retrieved_chunks, unfamiliar_terms, hop_count,
                   section_drafts, latex_sections, final_latex,
                   eval_reply, only_need_more, last_follow_ups>>

\* NODE 4, nodes.py:294-315, then the edge web_search -> evaluate
\* (graph.py:96).  hydrate_terms gives every requested term an entry.
web_search ==
    /\ pc = "web_search"
    /\ UNCHANGED harness
    /\ IF unfamiliar_terms = << >>
       THEN /\ hydration' = NoHydration
            /\ UNCHANGED <<web_search_results, evaluation_result>>
       ELSE /\ \E new_defs \in [{unfamiliar_terms[i] :
                                   i \in 1..Len(unfamiliar_terms)}
                                -> Definitions] :
                /\ web_search_results' = DictMerge(web_search_results,
                                                   new_defs)
                /\ hydration' = [called |-> TRUE, new_defs |-> new_defs]
            /\ evaluation_result' = "sufficient"
    /\ pc' = "evaluate"
    /\ calls' = [calls EXCEPT !.web_search = Bump(@)]
    /\ UNCHANGED <<consort_items, current_item_index, research_queries,
                   retrieved_chunks, unfamiliar_terms, hop_count,
                   section_drafts, latex_sections, final_latex,
                   eval_reply, only_need_more, last_follow_ups>>

\* slip: the cursor advanced by two
synthesize_SkipsItem ==
    /\ pc = "synthesize"
    /\ UNCHANGED harness
    /\ \E draft \in Drafts :
           section_drafts' = StoreDraft(section_drafts,
                                        ItemId(current_item_index), draft)
    /\ current_item_index' = current_item_index + 2
    /\ pc' = route_after_synthesize(current_item_index', Total)
    /\ UNCHANGED <<consort_items, research_queries, retrieved_chunks,
                   unfamiliar_terms, web_search_results, evaluation_result,
                   hop_count, latex_sections, final_latex,
                   eval_reply, calls, only_need_more,
                   last_follow_ups, hydration>>

\* slip: an item without evidence is treated as a failure
synthesize_NeedsEvidence ==
    /\ pc = "synthesize"
    /\ UNCHANGED harness
    /\ IF retrieved_chunks = << >>
       THEN /\ pc' = "raised"
            /\ UNCHANGED <<agent_state, eval_reply, calls, only_need_more,
                   last_follow_ups, hydration>>
       ELSE /\ \E draft \in Drafts :
                   section_drafts' = StoreDraft(section_drafts,
                                                ItemId(current_item_index),
                                                draft)
            /\ current_item_index' = current_item_index + 1
            /\ pc' = route_after_synthesize(current_item_index', Total)
            /\ UNCHANGED <<consort_items, research_queries, retrieved_chunks,
                           unfamiliar_terms, web_search_results,
                           evaluation_result, hop_count, latex_sections,
                           final_latex, eval_reply, calls, only_need_more,
                   last_follow_ups, hydration>>

\* slip: an item whose draft came back empty is planned again
synthesize_RetriesEmpty ==
    /\ pc = "synthesize"
    /\ UNCHANGED harness
    /\ \E draft \in Drafts :
         /\ section_drafts' = StoreDraft(section_drafts,
                                         ItemId(current_item_index), draft)
         /\ current_item_index' = IF draft = "" THEN current_item_index
                                                ELSE current_item_index + 1
    /\ pc' = route_after_synthesize(current_item_index', Total)
    /\ UNCHANGED <<consort_items, research_queries, retrieved_chunks,
                   unfamiliar_terms, web_search_results, evaluation_result,
                   hop_count, latex_sections, final_latex,
                   eval_reply, calls, only_need_more, last_follow_ups, hydration>>

\* NODE 5, nodes.py:322-384, then the conditional edge of graph.py:99-106
synthesize ==
    /\ pc = "synthesize"
    /\ UNCHANGED harness
    /\ \E draft \in Drafts :
           section_drafts' = StoreDraft(section_drafts,
                                        ItemId(current_item_index), draft)
    /\ current_item_index' = current_item_index + 1
    /\ pc' = route_after_synthesize(current_item_index', Total)
    /\ UNCHANGED <<consort_items, research_queries, retrieved_chunks,
                   unfamiliar_terms, web_search_results, evaluation_result,
                   hop_count, latex_sections, final_latex,
                   eval_reply, calls, only_need_more,
                   last_follow_ups, hydration>>

\* NODE 6, nodes.py:391-434, then the edge generate_latex -> END.
\* An item whose draft is missing or empty gets the placeholder comment.
generate_latex ==
    /\ pc = "generate_latex"
    /\ UNCHANGED harness
    /\ \E fragments \in [AllItemIds -> {"", "latex"}] :
           latex_sections' =
               [id \in AllItemIds |->
                   IF id \notin DOMAIN section_drafts \/ section_drafts[id] = ""
                   THEN "% No evidence found"
                   ELSE fragments[id]]
    /\ final_latex' = "document"
    /\ pc' = "END"
    /\ UNCHANGED <<consort_items, current_item_index, research_queries,
                   retrieved_chunks, unfamiliar_terms, web_search_results,
                   evaluation_result, hop_count, section_drafts,
                   eval_reply, calls, only_need_more,
                   last_follow_ups, hydration>>

Next ==
    \/ plan_research
    \/ retrieve
    \/ evaluate
    \/ web_search
    \/ synthesize
    \/ generate_latex

Spec == Init /\ [][Next]_vars

\* a run over a checklist of three items with distinct ids
ThreeItems == <<"1a", "1b", "2a">>

InitThreeItems ==
    /\ consort_items = ThreeItems
    /\ current_item_index = 0
    /\ research_queries = << >>
    /\ retrieved_chunks = << >>
    /\ unfamiliar_terms = << >>
    /\ web_search_results = EmptyDict
    /\ evaluation_result = ""
    /\ hop_count = 0
    /\ section_drafts = EmptyDict
    /\ latex_sections = EmptyDict
    /\ final_latex = ""
    /\ pc = "plan_research"
    /\ eval_reply = NoReply
    /\ calls = NoCalls
    /\ only_need_more = TRUE
    /\ last_follow_ups = << >>
    /\ hydration = NoHydration
    /\ mq = NoCall
    /\ hy = NoCall
    /\ lx = NoCall
    /\ sv = NoCall
    /\ gs = NoCall
    /\ orc = NoCall
    /\ ck = NoCall

ThreeItemSpec == InitThreeItems /\ [][Next]_vars

\* app.invoke runs the graph until END or an exception: a node that is due
\* is executed
FairSpec == Spec /\ WF_vars(Next)

TypeOK ==
    /\ consort_items \in Checklists
    /\ current_item_index \in 0..MaxItems
    /\ hop_count \in 0..MaxHops
    /\ pc \in Nodes \cup {"END", "raised"}
    /\ evaluation_result \in (VerdictFields \ {NoKey})
    /\ calls \in [retrieve : 0..CallCap, evaluate : 0..CallCap,
                  web_search : 0..CallCap]
    /\ only_need_more \in BOOLEAN
    /\ last_follow_ups \in FollowUps

\* ======================================== multi_query_search on its own
\* client.py:115-144.  mq holds the arguments and locals of one call:
\*   store            the ranking the store holds for each query, in order
\*   top_k_per_query  the limit handed to every search
\*   i                the number of queries searched so far
\*   results          the list each search returned (history)
\*   all_chunks       the local of that name
\*   out              the returned list
HitTexts  == {"x", "y"}
HitScores == {1, 2}
Hits == {Chunk(t, sc) : t \in HitTexts, sc \in HitScores}

SeqsUpTo(S, n) == UNION {[1..k -> S] : k \in 0..n}

IsDescending(chunks) ==
    \A i \in 1..(Len(chunks) - 1) : chunks[i].score >= chunks[i + 1].score

\* search returns its hits by descending relevance (client.py:66-67)
Rankings == {h \in SeqsUpTo(Hits, MaxHits) : IsDescending(h)}
Stores == SeqsUpTo(Rankings, MaxQueries)

TextsOf(chunks) == {chunks[i].text : i \in 1..Len(chunks)}

\* search, client.py:82-88: limit=top_k
Search(ranking, top_k) ==
    SubSeq(ranking, 1, IF Len(ranking) < top_k THEN Len(ranking) ELSE top_k)

\* slip: the seen_texts test left out
DedupAppend_NoDedup(all_chunks, results) == all_chunks \o results

\* client.py:131-135: the inner loop over one query's results
RECURSIVE DedupAppend(_, _)
DedupAppend(all_chunks, results) ==
    IF results = << >> THEN all_chunks
    ELSE DedupAppend(IF Head(results).text \in TextsOf(all_chunks)
                     THEN all_chunks
                     ELSE Append(all_chunks, Head(results)),
                     Tail(results))

\* one step of a stable sort by descending score: the new element goes
\* behind every element whose score is not smaller
RECURSIVE InsertByScore(_, _)
InsertByScore(sorted, c) ==
    IF sorted = << >> THEN <<c>>
    ELSE IF Head(sorted).score >= c.score
         THEN <<Head(sorted)>> \o InsertByScore(Tail(sorted), c)
         ELSE <<c>> \o sorted

RECURSIVE SortInto(_, _)
SortInto(sorted, chunks) ==
    IF chunks = << >> THEN sorted
    ELSE SortInto(InsertByScore(sorted, Head(chunks)), Tail(chunks))

\* slip: the list returned as collected
SortByScoreDesc_None(chunks) == chunks

\* client.py:138: all_chunks.sort(key=score, reverse=True), a stable sort
SortByScoreDesc(chunks) == SortInto(<< >>, chunks)

\* client.py:129-135, the outer loop from query i + 1 on
RECURSIVE CollectFrom(_, _, _, _)
CollectFrom(store, top_k, i, all_chunks) ==
    IF i >= Len(store) THEN all_chunks
    ELSE CollectFrom(store, top_k, i + 1,
                     DedupAppend(all_chunks, Search(store[i + 1], top_k)))

\* the whole call, client.py:126-144
MultiQuerySearch(store, top_k) ==
    SortByScoreDesc(CollectFrom(store, top_k, 0, << >>))

\* the graph is not running while a call is explored on its own
AgentIdle ==
    /\ consort_items = << >>
    /\ current_item_index = 0
    /\ research_queries = << >>
    /\ retrieved_chunks = << >>
    /\ unfamiliar_terms = << >>
    /\ web_search_results = EmptyDict
    /\ evaluation_result = ""
    /\ hop_count = 0
    /\ section_drafts = EmptyDict
    /\ latex_sections = EmptyDict
    /\ final_latex = ""
    /\ pc = "idle"
    /\ eval_reply = NoReply
    /\ calls = NoCalls
    /\ only_need_more = TRUE
    /\ last_follow_ups = << >>
    /\ hydration = NoHydration

agent_vars == <<agent_state, pc, eval_reply, calls, only_need_more,
                   last_follow_ups, hydration>>

InitSearch ==
    /\ AgentIdle
    /\ hy = NoCall
    /\ lx = NoCall
    /\ sv = NoCall
    /\ gs = NoCall
    /\ orc = NoCall
    /\ ck = NoCall
    /\ \E st \in Stores, k \in 1..MaxHits :
           mq = [pc |-> "loop", store |-> st, top_k_per_query |-> k, i |-> 0,
                 results |-> << >>, all_chunks |-> << >>, out |-> << >>]

\* client.py:129-135: one iteration of "for q in queries"
mq_search ==
    /\ mq.pc = "loop"
    /\ mq.i < Len(mq.store)
    /\ LET results == Search(mq.store[mq.i + 1], mq.top_k_per_query)
       IN mq' = [mq EXCEPT !.i = @ + 1,
                           !.results = Append(@, results),
                           !.all_chunks = DedupAppend(@, results)]
    /\ UNCHANGED <<agent_vars, hy, lx, sv, gs, orc, ck>>

\* client.py:137-144: sort and return
mq_return ==
    /\ mq.pc = "loop"
    /\ mq.i = Len(mq.store)
    /\ mq' = [mq EXCEPT !.out = SortByScoreDesc(mq.all_chunks),
                        !.pc = "done"]
    /\ UNCHANGED <<agent_vars, hy, lx, sv, gs, orc, ck>>

NextSearch ==
    \/ mq_search
    \/ mq_return

SearchSpec == InitSearch /\ [][NextSearch]_vars

\* ============================================= hydrate_terms on its own
\* you_client.py:41-101.  hy holds the argument and locals of one call:
\*   terms        the requested terms, in order
\*   lookups      what self._wrapper.results does on each search_term call
\*   i            the number of terms looked up so far
\*   definitions  the local of that name, returned at the end
\* A definition is modelled as the sequence of the strings it is made of.
HyTerms == {"ANCOVA", "ITT"}
SnippetLists == {<< >>, <<"s1">>, <<"", "s2">>, <<"s1", "s2", "s3">>}
\* the wrapper raises, returns a list of result dicts (their snippets),
\* returns one string, or returns something that is neither
RawLookups ==
    [kind : {"list"}, snippets : SnippetLists]
    \cup [kind : {"raises", "other"}, snippets : {<< >>}]
    \cup [kind : {"str"}, snippets : {<<"s1">>}]

\* slip: no try/except around the wrapper call
SearchTerm_NoCatch(raw) ==
    IF raw.kind = "raises" THEN [raised |-> TRUE, results |-> << >>]
    ELSE IF raw.kind \in {"list", "str"}
         THEN [raised |-> FALSE, results |-> raw.snippets]
         ELSE [raised |-> FALSE, results |-> << >>]

\* search_term, you_client.py:41-83: an exception of the wrapper is caught
\* and gives no results; results are the snippets of the list items, or the
\* one string
SearchTerm(raw) ==
    IF raw.kind = "raises" THEN [raised |-> FALSE, results |-> << >>]
    ELSE IF raw.kind \in {"list", "str"}
         THEN [raised |-> FALSE, results |-> raw.snippets]
         ELSE [raised |-> FALSE, results |-> << >>]

Placeholder(term) == <<"No definition found for", term>>

\* you_client.py:95-100: the top two snippets that are not empty, joined;
\* the placeholder when there is no result
DefinitionOf(term, results) ==
    IF results # << >>
    THEN SelectSeq(SubSeq(results, 1, IF Len(results) < 2 THEN Len(results)
                                                         ELSE 2),
                   LAMBDA sn : sn # "")
    ELSE Placeholder(term)

InitHydrate ==
    /\ AgentIdle
    /\ mq = NoCall
    /\ lx = NoCall
    /\ sv = NoCall
    /\ gs = NoCall
    /\ orc = NoCall
    /\ ck = NoCall
    /\ \E ts \in SeqsUpTo(HyTerms, MaxTerms) :
         \E ls \in [1..Len(ts) -> RawLookups] :
           hy = [pc |-> "loop", terms |-> ts, lookups |-> ls, i |-> 0,
                 definitions |-> EmptyDict]

\* you_client.py:93-100: one iteration of "for term in terms"
hy_lookup ==
    /\ hy.pc = "loop"
    /\ hy.i < Len(hy.terms)
    /\ LET term == hy.terms[hy.i + 1]
           found == SearchTerm(hy.lookups[hy.i + 1])
       IN IF found.raised
          THEN hy' = [hy EXCEPT !.pc = "raised"]
          ELSE hy' = [hy EXCEPT
                        !.i = @ + 1,
                        !.definitions =
                            DictMerge(@, [t \in {term} |->
                                            DefinitionOf(term, found.results)])]
    /\ UNCHANGED <<agent_vars, mq, lx, sv, gs, orc, ck>>

\* you_client.py:101
hy_return ==
    /\ hy.pc = "loop"
    /\ hy.i = Len(hy.terms)
    /\ hy' = [hy EXCEPT !.pc = "done"]
    /\ UNCHANGED <<agent_vars, mq, lx, sv, gs, orc, ck>>

NextHydrate ==
    \/ hy_lookup
    \/ hy_return

HydrateSpec == InitHydrate /\ [][NextHydrate]_vars

\* ========================================= sections_to_latex on its own
\* generator.py:37-105.  lx holds the arguments and locals of one call:
\*   consort_items    the items (id, section, topic), in order
\*   latex_sections   item id -> fragment
\*   i, j             items done by the body loop and by the table loop
\*   current_section, current_topic   the locals of those names
\*   parts            the local of that name: the lines of the document
\* A line is kept as a record: what kind of line it is, the item (position
\* in the list, 0 for none) it was written for, and the text that varies.
Sections == {"", "Methods", "Results"}
Topics == {"", "Design", "Outcomes"}
LatexItems == [id : ItemIds, section : Sections, topic : Topics]
Fragments == {"", "latex"}
LatexSectionMaps == UNION {[S -> Fragments] : S \in SUBSET ItemIds}

Line(kind, at, text) == [kind |-> kind, at |-> at, text |-> text]

\* latex_sections.get(item_id, "")
DictGet(d, k, default) == IF k \in DOMAIN d THEN d[k] ELSE default

\* generator.py:69-74
SectionLines(item, at, current_section) ==
    IF item.section # current_section
    THEN <<Line("blank", 0, ""), Line("section", at, item.section)>>
    ELSE << >>

\* slip: the topic is not reset when a section starts
TopicContext_NoReset(item, current_section, current_topic) == current_topic

\* generator.py:69-71: current_topic as the topic test sees it
TopicContext(item, current_section, current_topic) ==
    IF item.section # current_section THEN "" ELSE current_topic

\* generator.py:77-80
TopicLines(item, at, current_topic) ==
    IF item.topic # current_topic
    THEN <<Line("subsection", at, item.topic), Line("label", at, item.id)>>
    ELSE << >>

\* slip: an item without a fragment is passed over
BodyLines_SkipEmpty(item, at, sections) ==
    LET fragment == DictGet(sections, item.id, "")
    IN IF fragment # ""
       THEN <<Line("blank", 0, ""), Line("comment", at, item.id),
              Line("fragment", at, fragment)>>
       ELSE << >>

\* generator.py:83-89
BodyLines(item, at, sections) ==
    LET fragment == DictGet(sections, item.id, "")
    IN IF fragment # ""
       THEN <<Line("blank", 0, ""), Line("comment", at, item.id),
              Line("fragment", at, fragment)>>
       ELSE <<Line("placeholder", at, item.id)>>

InitLatex ==
    /\ AgentIdle
    /\ mq = NoCall
    /\ hy = NoCall
    /\ sv = NoCall
    /\ gs = NoCall
    /\ orc = NoCall
    /\ ck = NoCall
    /\ \E items \in SeqsUpTo(LatexItems, MaxItems), ls \in LatexSectionMaps :
           lx = [pc |-> "body", consort_items |-> items,
                 latex_sections |-> ls, i |-> 0, j |-> 0,
                 current_section |-> "", current_topic |-> "",
                 parts |-> <<Line("preamble", 0, ""), Line("blank", 0, ""),
                             Line("begin", 0, ""), Line("blank", 0, "")>>]

\* generator.py:63-89: one iteration of the first "for item in consort_items"
lx_item ==
    /\ lx.pc = "body"
    /\ lx.i < Len(lx.consort_items)
    /\ LET item == lx.consort_items[lx.i + 1]
           at == lx.i + 1
           topic_seen == TopicContext(item, lx.current_section,
                                      lx.current_topic)
       IN lx' = [lx EXCEPT
                   !.i = @ + 1,
                   !.current_section = item.section,
                   !.current_topic = IF item.topic # topic_seen
                                     THEN item.topic ELSE topic_seen,
                   !.parts = @ \o SectionLines(item, at, lx.current_section)
                               \o TopicLines(item, at, topic_seen)
                               \o BodyLines(item, at, lx.latex_sections)]
    /\ UNCHANGED <<agent_vars, mq, hy, sv, gs, orc, ck>>

\* generator.py:91-93: the table header, after the last item
lx_table ==
    /\ lx.pc = "body"
    /\ lx.i = Len(lx.consort_items)
    /\ lx' = [lx EXCEPT !.pc = "table",
                        !.parts = @ \o <<Line("blank", 0, ""),
                                         Line("table_header", 0, "")>>]
    /\ UNCHANGED <<agent_vars, mq, hy, sv, gs, orc, ck>>

\* slip: only the items that have a fragment get a row
lx_row_SkipsUndrafted ==
    /\ lx.pc = "table"
    /\ lx.j < Len(lx.consort_items)
    /\ LET item == lx.consort_items[lx.j + 1]
       IN lx' = [lx EXCEPT
                   !.j = @ + 1,
                   !.parts = IF DictGet(lx.latex_sections, item.id, "") # ""
                             THEN Append(@, Line("row", lx.j + 1, item.id))
                             ELSE @]
    /\ UNCHANGED <<agent_vars, mq, hy, sv, gs, orc, ck>>

\* generator.py:94-101: one iteration of the second "for item in
\* consort_items"
lx_row ==
    /\ lx.pc = "table"
    /\ lx.j < Len(lx.consort_items)
    /\ LET item == lx.consort_items[lx.j + 1]
       IN lx' = [lx EXCEPT
                   !.j = @ + 1,
                   !.parts = Append(@, Line("row", lx.j + 1, item.id))]
    /\ UNCHANGED <<agent_vars, mq, hy, sv, gs, orc, ck>>

\* generator.py:102-109: footer, end of document, return
lx_return ==
    /\ lx.pc = "table"
    /\ lx.j = Len(lx.consort_items)
    /\ lx' = [lx EXCEPT !.pc = "done",
                        !.parts = @ \o <<Line("table_footer", 0, ""),
                                         Line("blank", 0, ""),
                                         Line("end", 0, "")>>]
    /\ UNCHANGED <<agent_vars, mq, hy, sv, gs, orc, ck>>

NextLatex ==
    \/ lx_item
    \/ lx_table
    \/ lx_row
    \/ lx_return

LatexSpec == InitLatex /\ [][NextLatex]_vars

\* ============================================== /api/generate on its own
\* server.py:248-300.  sv holds one request:
\*   settings  what get_settings() does ("ok" or "raises")
\*   load      what create_initial_state does: the checklist, or "raises"
\*   run       what compiled.invoke does: "raises", or the final_latex of
\*             the state it returns
\*   total     the local of that name
\*   events    the frames yielded so far, in order
\* The graph run is one blocking call here; its steps are those of Spec.
InitialisingMsg == "Initialising research graph..."
ProcessingMsg == "Processing CONSORT items"
NoLatexMsg == "Agent finished but produced no LaTeX."
ExceptionMsg == "str(exc)"
RunOutcomes == {"raises", "", "document"}
LoadOutcomes == [kind : {"ok"}, items : Checklists]
                    \cup {[kind |-> "raises", items |-> << >>]}

Event(type, message, latex) ==
    [type |-> type, message |-> message, latex |-> latex]

InitServer ==
    /\ AgentIdle
    /\ mq = NoCall
    /\ hy = NoCall
    /\ lx = NoCall
    /\ gs = NoCall
    /\ orc = NoCall
    /\ ck = NoCall
    /\ \E st \in {"ok", "raises"}, ld \in LoadOutcomes, rn \in RunOutcomes :
           sv = [pc |-> "settings", settings |-> st, load |-> ld, run |-> rn,
                 total |-> 0, events |-> << >>]

\* server.py:259: get_settings() is called before the stream exists; its
\* exception becomes the HTTP error response of the framework
sv_settings ==
    /\ sv.pc = "settings"
    /\ sv' = [sv EXCEPT !.pc = IF sv.settings = "raises" THEN "http_error"
                                                        ELSE "stream"]
    /\ UNCHANGED <<agent_vars, mq, hy, lx, gs, orc, ck>>

\* server.py:263-267: the first frame
sv_initialising ==
    /\ sv.pc = "stream"
    /\ sv' = [sv EXCEPT !.pc = "create",
                        !.events = Append(@, Event("progress",
                                                   InitialisingMsg, ""))]
    /\ UNCHANGED <<agent_vars, mq, hy, lx, gs, orc, ck>>

\* server.py:269-279 and 295-297: build the graph, load the checklist,
\* announce the number of items; an exception yields the error frame
sv_create ==
    /\ sv.pc = "create"
    /\ IF sv.load.kind = "raises"
       THEN sv' = [sv EXCEPT !.pc = "closed",
                             !.events = Append(@, Event("error",
                                                        ExceptionMsg, ""))]
       ELSE sv' = [sv EXCEPT !.pc = "invoke",
                             !.total = Len(sv.load.items),
                             !.events = Append(@, Event("progress",
                                                        ProcessingMsg, ""))]
    /\ UNCHANGED <<agent_vars, mq, hy, lx, gs, orc, ck>>

\* server.py:281-297: the run, then the one frame that ends the stream
sv_invoke ==
    /\ sv.pc = "invoke"
    /\ sv' = [sv EXCEPT
                !.pc = "closed",
                !.events = Append(@,
                    IF sv.run = "raises" THEN Event("error", ExceptionMsg, "")
                    ELSE IF sv.run = "" THEN Event("error", NoLatexMsg, "")
                    ELSE Event("complete", "Report generated successfully",
                               sv.run))]
    /\ UNCHANGED <<agent_vars, mq, hy, lx, gs, orc, ck>>

NextServer ==
    \/ sv_settings
    \/ sv_initialising
    \/ sv_create
    \/ sv_invoke

ServerSpec == InitServer /\ [][NextServer]_vars

\* ========================================== generate_section on its own
\* data_generator/openai_client.py:129-164.  Text is a sequence of
\* characters, "a" for any character that is not white space.  gs holds one
\* call:
\*   max_retries  config.max_retries
\*   api          what client.chat.completions.create does on each call
\*   attempt      the loop variable
\*   api_calls    the calls of the API made so far
\*   out          the text returned
MaxRetries == 3
Chars == {"a", " "}

RECURSIVE StripLeft(_)
StripLeft(text) ==
    IF text # << >> /\ Head(text) = " " THEN StripLeft(Tail(text)) ELSE text

RECURSIVE StripRight(_)
StripRight(text) ==
    IF text # << >> /\ text[Len(text)] = " "
    THEN StripRight(SubSeq(text, 1, Len(text) - 1))
    ELSE text

\* str.strip()
Strip(text) == StripRight(StripLeft(text))

Contents == {<< >>, <<" ">>, <<"a">>, <<" ", "a", " ">>}
\* the API call raises, answers with content None, or answers with text
ApiOutcomes ==
    [kind : {"raises", "none"}, content : {<< >>}]
    \cup [kind : {"text"}, content : Contents]

\* slip: no test for an empty text
Attempt_AcceptsEmpty(outcome) ==
    IF outcome.kind = "raises" THEN [ok |-> FALSE, text |-> << >>]
    ELSE [ok |-> TRUE, text |-> Strip(outcome.content)]

\* openai_client.py:131-148 and 149: one pass through the try block;
\* (content or "").strip(), an empty text raises ValueError, and every
\* exception is caught
Attempt(outcome) ==
    IF outcome.kind = "raises" THEN [ok |-> FALSE, text |-> << >>]
    ELSE LET text == Strip(outcome.content)
         IN IF text = << >> THEN [ok |-> FALSE, text |-> << >>]
                            ELSE [ok |-> TRUE, text |-> text]

InitSection ==
    /\ AgentIdle
    /\ mq = NoCall
    /\ hy = NoCall
    /\ lx = NoCall
    /\ sv = NoCall
    /\ orc = NoCall
    /\ ck = NoCall
    /\ \E n \in 0..MaxRetries :
         \E api \in [1..n -> ApiOutcomes] :
           gs = [pc |-> "loop", max_retries |-> n, api |-> api,
                 attempt |-> 0, api_calls |-> 0, out |-> << >>]

\* openai_client.py:130-159: one iteration of
\* "for attempt in range(config.max_retries)"
gs_attempt ==
    /\ gs.pc = "loop"
    /\ gs.attempt < gs.max_retries
    /\ LET result == Attempt(gs.api[gs.attempt + 1])
       IN gs' = IF result.ok
                THEN [gs EXCEPT !.api_calls = @ + 1,
                                !.out = result.text,
                                !.pc = "returned"]
                ELSE [gs EXCEPT !.api_calls = @ + 1,
                                !.attempt = @ + 1]
    /\ UNCHANGED <<agent_vars, mq, hy, lx, sv, orc, ck>>

\* openai_client.py:160-164: the loop is exhausted, RuntimeError
gs_raise ==
    /\ gs.pc = "loop"
    /\ gs.attempt = gs.max_retries
    /\ gs' = [gs EXCEPT !.pc = "raised"]
    /\ UNCHANGED <<agent_vars, mq, hy, lx, sv, orc, ck>>

NextSection ==
    \/ gs_attempt
    \/ gs_raise

SectionSpec == InitSection /\ [][NextSection]_vars

\* ================================ the data generator's run on its own
\* data_generator/orchestrator.py:20-171.  A trial id "trial_00n" is kept
\* as its number n.  orc holds one call of run:
\*   resume, start_index, num_trials   the arguments
\*   file         trials_done of checkpoint.json on disk (<< >> if none)
\*   loaded       trials_done as read at the start of the call
\*   trials_done  the local of that name
\*   i            the loop variable
\*   docs         documents built so far for the trial in progress
\*   started      history: the trials for which generation was started
\*   completed    history: the trials whose three documents were built
\*   failed       history: the trial that raised, 0 if none
MaxTrials == 3
MaxStart == 1
MaxCheckpoint == 2
DocsPerTrial == 3      \* orchestrator.py:83-107: protocol, SAP, tables
TrialIds == 1..(MaxTrials + 1)
\* trial_id = f"trial_{i+1:03d}"
TrialId(i) == i + 1
InSeq(x, seq) == \E n \in 1..Len(seq) : seq[n] = x
NoDuplicates(seq) ==
    \A m, n \in 1..Len(seq) : seq[m] = seq[n] => m = n
\* what an earlier run can have saved
CheckpointFiles ==
    {f \in SeqsUpTo(TrialIds, MaxCheckpoint) : NoDuplicates(f)}

InitRun ==
    /\ AgentIdle
    /\ mq = NoCall
    /\ hy = NoCall
    /\ lx = NoCall
    /\ sv = NoCall
    /\ gs = NoCall
    /\ ck = NoCall
    /\ \E rs \in BOOLEAN, st \in 0..MaxStart, n \in 0..MaxTrials,
          f \in CheckpointFiles :
           orc = [pc |-> "load", resume |-> rs, start_index |-> st,
                  num_trials |-> n, file |-> f, loaded |-> << >>,
                  trials_done |-> << >>, i |-> st, docs |-> 0,
                  started |-> << >>, completed |-> << >>, failed |-> 0]

\* orchestrator.py:132-134: checkpoint = load_checkpoint(...) if resume
\* else {}
orc_load ==
    /\ orc.pc = "load"
    /\ LET done == IF orc.resume THEN orc.file ELSE << >>
       IN orc' = [orc EXCEPT !.pc = "loop", !.loaded = done,
                             !.trials_done = done]
    /\ UNCHANGED <<agent_vars, mq, hy, lx, sv, gs, ck>>

\* orchestrator.py:137-141: a trial that is in trials_done is skipped
orc_skip ==
    /\ orc.pc = "loop"
    /\ orc.i < orc.start_index + orc.num_trials
    /\ InSeq(TrialId(orc.i), orc.trials_done)
    /\ orc' = [orc EXCEPT !.i = @ + 1]
    /\ UNCHANGED <<agent_vars, mq, hy, lx, sv, gs, ck>>

\* slip: the trial is checkpointed when it is started
orc_start_SavesEarly ==
    /\ orc.pc = "loop"
    /\ orc.i < orc.start_index + orc.num_trials
    /\ ~InSeq(TrialId(orc.i), orc.trials_done)
    /\ orc' = [orc EXCEPT
                 !.pc = "trial", !.docs = 0,
                 !.started = Append(@, TrialId(orc.i)),
                 !.trials_done = Append(@, TrialId(orc.i)),
                 !.file = Append(orc.trials_done, TrialId(orc.i))]
    /\ UNCHANGED <<agent_vars, mq, hy, lx, sv, gs, ck>>

\* orchestrator.py:139-145: the trial is not in trials_done, run_trial is
\* called
orc_start ==
    /\ orc.pc = "loop"
    /\ orc.i < orc.start_index + orc.num_trials
    /\ ~InSeq(TrialId(orc.i), orc.trials_done)
    /\ orc' = [orc EXCEPT !.pc = "trial", !.docs = 0,
                          !.started = Append(@, TrialId(orc.i))]
    /\ UNCHANGED <<agent_vars, mq, hy, lx, sv, gs, ck>>

\* orchestrator.py:83-107 and 163-165: run_trial builds the next document,
\* or the builder raises and run re-raises
orc_build ==
    /\ orc.pc = "trial"
    /\ orc.docs < DocsPerTrial
    /\ \/ orc' = [orc EXCEPT !.docs = @ + 1]
       \/ orc' = [orc EXCEPT !.pc = "raised", !.failed = TrialId(orc.i)]
    /\ UNCHANGED <<agent_vars, mq, hy, lx, sv, gs, ck>>

\* orchestrator.py:154-156: run_trial has returned; append, save, next i
orc_checkpoint ==
    /\ orc.pc = "trial"
    /\ orc.docs = DocsPerTrial
    /\ LET done == Append(orc.trials_done, TrialId(orc.i))
       IN orc' = [orc EXCEPT !.pc = "loop", !.i = @ + 1,
                             !.trials_done = done, !.file = done,
                             !.completed = Append(@, TrialId(orc.i))]
    /\ UNCHANGED <<agent_vars, mq, hy, lx, sv, gs, ck>>

\* orchestrator.py:167-171
orc_return ==
    /\ orc.pc = "loop"
    /\ orc.i = orc.start_index + orc.num_trials
    /\ orc' = [orc EXCEPT !.pc = "returned"]
    /\ UNCHANGED <<agent_vars, mq, hy, lx, sv, gs, ck>>

NextRun ==
    \/ orc_load
    \/ orc_skip
    \/ orc_start
    \/ orc_build
    \/ orc_checkpoint
    \/ orc_return

RunSpec == InitRun /\ [][NextRun]_vars

\* ================================================ chunk_text on its own
\* file_reader.py:18-33.  ck holds one call:
\*   raw          the argument text
\*   chunk_size, overlap   the arguments of those names
\*   text         the local text after text.strip()
\*   start        the local of that name
\*   chunks       the local of that name; with each chunk the offset in
\*                text of its first character is kept
\*   iterations   passes through the loop body so far
MaxText == 4
MaxChunk == 3
\* the model follows a call for at most this many passes; a call that
\* terminates needs no more than Len(text) of them
MaxIter == MaxText + 2

\* where a slice bound lands in a sequence of length n (negative bounds
\* count from the end, all bounds are clamped)
SliceBound(x, n) ==
    IF x < 0 THEN (IF x + n < 0 THEN 0 ELSE x + n)
    ELSE IF x > n THEN n ELSE x

\* text[a:b]
Slice(text, a, b) ==
    LET lo == SliceBound(a, Len(text))
        hi == SliceBound(b, Len(text))
    IN IF lo < hi THEN SubSeq(text, lo + 1, hi) ELSE << >>

\* slip: a blank window is skipped without moving on
NextStart_StaysOnBlank(start, end, overlap, blank) ==
    IF blank THEN start ELSE end - overlap

\* file_reader.py:28-32: start = end - overlap on both paths
NextStart(start, end, overlap, blank) == end - overlap

InitChunk ==
    /\ AgentIdle
    /\ mq = NoCall
    /\ hy = NoCall
    /\ lx = NoCall
    /\ sv = NoCall
    /\ gs = NoCall
    /\ orc = NoCall
    /\ \E raw \in SeqsUpTo(Chars, MaxText), cs \in 0..MaxChunk,
          ov \in 0..MaxChunk :
           ck = [pc |-> "enter", raw |-> raw, chunk_size |-> cs,
                 overlap |-> ov, text |-> << >>, start |-> 0,
                 chunks |-> << >>, iterations |-> 0]

\* file_reader.py:20-24
ck_enter ==
    /\ ck.pc = "enter"
    /\ ck' = IF Strip(ck.raw) = << >>
             THEN [ck EXCEPT !.pc = "done"]
             ELSE [ck EXCEPT !.pc = "loop", !.text = Strip(ck.raw)]
    /\ UNCHANGED <<agent_vars, mq, hy, lx, sv, gs, orc>>

\* file_reader.py:25-32: one pass through "while start < len(text)"
ck_iterate ==
    /\ ck.pc = "loop"
    /\ ck.start < Len(ck.text)
    /\ ck.iterations < MaxIter
    /\ LET end == ck.start + ck.chunk_size
           chunk == Slice(ck.text, ck.start, end)
           blank == Strip(chunk) = << >>
       IN ck' = [ck EXCEPT
                   !.iterations = @ + 1,
                   !.start = NextStart(ck.start, end, ck.overlap, blank),
                   !.chunks =
                       IF blank THEN @
                       ELSE Append(@, [from |-> SliceBound(ck.start,
                                                           Len(ck.text)),
                                       text |-> chunk])]
    /\ UNCHANGED <<agent_vars, mq, hy, lx, sv, gs, orc>>

\* file_reader.py:25 and 33: the loop condition fails, return chunks
ck_return ==
    /\ ck.pc = "loop"
    /\ ck.start >= Len(ck.text)
    /\ ck' = [ck EXCEPT !.pc = "done"]
    /\ UNCHANGED <<agent_vars, mq, hy, lx, sv, gs, orc>>

NextChunk ==
    \/ ck_enter
    \/ ck_iterate
    \/ ck_return

ChunkSpec == InitChunk /\ [][NextChunk]_vars

\* the interpreter keeps executing the call
ChunkFairSpec == ChunkSpec /\ WF_vars(NextChunk)

\* ================================================================ claims

\* C1: in every reachable state hop_count is at most 3, and retrieve (the
\* only node that increments hop_count) is never due while hop_count is
\* already 3, whatever the evaluator answers.
C1_HopCeiling ==
    /\ hop_count <= 3
    /\ pc = "retrieve" => hop_count < 3

\* the evaluator asked for more after the third hop and was overruled
C1_Witness ==
    /\ hop_count = 3
    /\ eval_reply.verdict = "need_more"
    /\ evaluation_result = "sufficient"
    /\ pc = "synthesize"

\* C2: for a checklist of one or more items the run eventually reaches END
\* (through generate_latex) for every sequence of evaluator verdicts.  A run
\* that ends in an exception is not held against the claim here, so the
\* only way to violate this formula is to stay in the loop forever.
C2_RunEnds == (Total >= 1) ~> (pc \in {"END", "raised"})

\* C3: web_search is executed at most once for every work item.
C3_SingleHydrationPass == calls.web_search <= 1

\* C4: once web_search has been executed for an item, retrieve is not
\* executed again for that item.
C4_NoHopAfterHydration ==
    [][(pc = "retrieve" /\ pc' = "evaluate") => calls.web_search = 0]_vars

\* C5: for an item whose evaluator answers need_more on every call, the item
\* reaches synthesize only after exactly 3 retrieve and 3 evaluate
\* executions (never through web_search), the verdict recorded by the third
\* evaluate is sufficient although the raw answer was need_more, and the one
\* synthesize execution advances the cursor so that no second draft call is
\* made for the item.
C5_AlwaysNeedMore ==
    /\ [](only_need_more =>
            /\ pc # "web_search"
            /\ calls.web_search = 0
            /\ calls.evaluate <= 3
            /\ pc = "synthesize" =>
                  /\ calls.retrieve = 3
                  /\ calls.evaluate = 3
                  /\ eval_reply.verdict = "need_more"
                  /\ evaluation_result = "sufficient")
    /\ [][pc = "synthesize" =>
            /\ current_item_index' = current_item_index + 1
            /\ pc' # "synthesize"]_vars

\* three need_more answers, and the draft call is due
C5_Witness ==
    /\ only_need_more
    /\ pc = "synthesize"
    /\ calls.evaluate = 3

\* C6: the node that follows evaluate is determined by the evaluator's
\* verdict and hop_count alone: need_more goes to retrieve below 3 hops and
\* to synthesize from 3 hops on, need_web goes to web_search, sufficient to
\* synthesize, with or without follow-up queries in the answer.
C6_RoutingTable ==
    [][(/\ pc = "evaluate"
        /\ eval_reply'.kind = "object"
        /\ eval_reply'.verdict \in KnownVerdicts)
       => pc' = CASE eval_reply'.verdict = "need_more" /\ hop_count < 3
                       -> "retrieve"
                  [] eval_reply'.verdict = "need_more" /\ hop_count >= 3
                       -> "synthesize"
                  [] eval_reply'.verdict = "need_web" -> "web_search"
                  [] eval_reply'.verdict = "sufficient" -> "synthesize"]_vars

\* (need_more, hop_count = 3) with follow-up queries was sent to synthesize
C6_Witness ==
    /\ pc = "synthesize"
    /\ eval_reply.verdict = "need_more"
    /\ hop_count = 3
    /\ research_queries = <<"follow-up">>

\* C7: a reply object whose verdict is none of sufficient, need_more and
\* need_web (the empty string and a missing key included) is routed like
\* sufficient: synthesize runs next and the run is not aborted.
C7_UnknownVerdict ==
    [][(/\ pc = "evaluate"
        /\ eval_reply'.kind = "object"
        /\ eval_reply'.verdict \notin KnownVerdicts)
       => pc' = "synthesize"]_vars

\* a reply without a verdict key was sent to synthesize
C7_Witness ==
    /\ pc = "synthesize"
    /\ eval_reply = [kind |-> "object", verdict |-> NoKey]

\* C8: when the run has completed (generate_latex has executed) the key set
\* of section_drafts is exactly the set of ids of the checklist.
C8_DraftCoverage ==
    pc = "END" => DOMAIN section_drafts = AllItemIds

\* a completed run over two items with different ids
C8_Witness ==
    /\ pc = "END"
    /\ Total = 2
    /\ consort_items[1] # consort_items[2]

\* C9: 0 <= current_item_index <= len(consort_items) in every state, the
\* cursor never decreases, and the run is in its final phase (assembly, then
\* END) exactly in the states where the cursor equals the number of items.
C9_Cursor ==
    /\ [](/\ current_item_index >= 0
          /\ current_item_index <= Total
          /\ current_item_index = Total <=> pc \in {"generate_latex", "END"})
    /\ [][current_item_index' >= current_item_index]_vars

\* C10: synthesize adds one to the cursor and is followed by generate_latex
\* exactly when the new cursor equals the number of items and by
\* plan_research otherwise; generate_latex is never due while an item is
\* unprocessed and plan_research is never due with the cursor out of range.
C10_AdvanceItem ==
    /\ [][pc = "synthesize" =>
            /\ current_item_index' = current_item_index + 1
            /\ pc' = IF current_item_index' = Total THEN "generate_latex"
                                                    ELSE "plan_research"]_vars
    /\ [](/\ pc = "generate_latex" => current_item_index = Total
          /\ pc = "plan_research" => InRange(current_item_index))

\* C11: a run on a checklist with 0 items does not fail: it never ends in an
\* exception (and so goes on to assemble the empty document).
C11_EmptyChecklist == Total = 0 => pc # "raised"

\* C12: whatever unparsable text the evaluator returns (not JSON, or JSON
\* that is not an object), evaluate does not raise: it records sufficient
\* and synthesize runs next.
C12_UnparsableReply ==
    [][(pc = "evaluate" /\ eval_reply'.kind \in {"unparsable", "nonobject"})
       => (pc' = "synthesize" /\ evaluation_result' = "sufficient")]_vars

\* C13: whenever retrieve is due, research_queries is not empty, whatever
\* the planner and the evaluator answered.
C13_QueriesNonEmpty == pc = "retrieve" => research_queries # << >>

\* C14: in every reachable state no two fragments of retrieved_chunks have
\* the same text.
C14_NoDuplicateText ==
    \A i, j \in 1..Len(retrieved_chunks) :
        retrieved_chunks[i].text = retrieved_chunks[j].text => i = j

\* a second hop returned y and, again, x (with another score): x was dropped
C14_Witness ==
    /\ retrieved_chunks = <<Chunk("x", 2), Chunk("y", 3)>>
    /\ hop_count >= 2

UniqueIds ==
    \A i, j \in 1..Total : consort_items[i] = consort_items[j] => i = j

\* C17: with unique item ids, an entry of section_drafts is never changed
\* and never removed by a later step, and synthesize runs once per item: it
\* is only due for an item that has no draft yet, and a completed run has
\* one draft per item.
C17_DraftsImmutable ==
    /\ [][UniqueIds =>
            \A id \in DOMAIN section_drafts :
                /\ id \in DOMAIN section_drafts'
                /\ section_drafts'[id] = section_drafts[id]]_vars
    /\ [](UniqueIds =>
            /\ pc = "synthesize" =>
                  ItemId(current_item_index) \notin DOMAIN section_drafts
            /\ Cardinality(DOMAIN section_drafts) = current_item_index)

\* the second item is being processed while the first one's draft is kept
C17_Witness ==
    /\ UniqueIds
    /\ Total = 2
    /\ current_item_index = 1
    /\ pc = "synthesize"
    /\ section_drafts = [k \in {consort_items[1]} |-> "prose"]

\* C18: items are processed in checklist order, one at a time: while a node
\* is due for the item at the cursor, every earlier item has its draft, and
\* the cursor moves only when synthesize has written the draft of the item
\* it leaves, and then to the very next item.
C18_InOrder ==
    /\ [](pc \in Nodes =>
            \A j \in 1..current_item_index :
                j <= Total /\ consort_items[j] \in DOMAIN section_drafts)
    /\ [][current_item_index' # current_item_index =>
            /\ pc = "synthesize"
            /\ current_item_index' = current_item_index + 1
            /\ ItemId(current_item_index) \in DOMAIN section_drafts']_vars

\* the evaluator is consulted for the second item, the first one is drafted
C18_Witness ==
    /\ current_item_index = 1
    /\ pc = "evaluate"
    /\ consort_items[1] \in DOMAIN section_drafts
    /\ consort_items[2] \notin DOMAIN section_drafts

\* C20: a failing search call during retrieve does not abort the item:
\* whatever the store does, retrieve is followed by evaluate.
C20_SearchFailureDegrades ==
    [][pc = "retrieve" => pc' = "evaluate"]_vars

\* C15: multi_query_search runs one search per query, each limited to the
\* per-query top_k, and returns a list that holds exactly the texts occurring
\* in the per-query results, each text once, every element being one of the
\* returned fragments, ordered by non-increasing score.
C15_DedupedAndSorted ==
    mq.pc = "done" =>
        /\ Len(mq.results) = Len(mq.store)
        /\ \A q \in 1..Len(mq.results) :
               Len(mq.results[q]) <= mq.top_k_per_query
        /\ TextsOf(mq.out) = UNION {TextsOf(mq.results[q]) :
                                       q \in 1..Len(mq.results)}
        /\ \A i, j \in 1..Len(mq.out) :
               mq.out[i].text = mq.out[j].text => i = j
        /\ \A i \in 1..Len(mq.out) :
               \E q \in 1..Len(mq.results) :
                   \E h \in 1..Len(mq.results[q]) : mq.results[q][h] = mq.out[i]
        /\ IsDescending(mq.out)

\* x is found by both queries and y, found later, is ranked first
C15_Witness ==
    /\ mq.pc = "done"
    /\ mq.results = << <<Chunk("x", 1)>>, <<Chunk("y", 2), Chunk("x", 2)>> >>
    /\ mq.out = <<Chunk("y", 2), Chunk("x", 1)>>

Perms(n) == {p \in [1..n -> 1..n] : \A i, j \in 1..n : p[i] = p[j] => i = j}
Permuted(store, p) == [q \in 1..Len(store) |-> store[p[q]]]
AllHits(store, top_k) ==
    UNION {{Search(store[q], top_k)[h] :
               h \in 1..Len(Search(store[q], top_k))} : q \in 1..Len(store)}
\* no text comes back with two scores, no two texts come back with one score
Unambiguous(store, top_k) ==
    \A a, b \in AllHits(store, top_k) :
        (a.text = b.text) <=> (a.score = b.score)

\* C16 as stated: presenting the same per-query results in any order of the
\* queries gives the same returned list, ties and repeated texts included.
C16_OrderIndependent ==
    mq.pc = "done" =>
        \A p \in Perms(Len(mq.store)) :
            MultiQuerySearch(Permuted(mq.store, p), mq.top_k_per_query)
                = mq.out

\* C16 as amended: in any order of the queries the returned list holds the
\* same texts and is ordered by non-increasing score; it is the same list
\* whenever no text is returned with two different scores and no two
\* different texts are returned with the same score.
C16_OrderIndependentAmended ==
    mq.pc = "done" =>
        \A p \in Perms(Len(mq.store)) :
            LET other == MultiQuerySearch(Permuted(mq.store, p),
                                          mq.top_k_per_query)
            IN /\ TextsOf(other) = TextsOf(mq.out)
               /\ Len(other) = Len(mq.out)
               /\ IsDescending(other)
               /\ Unambiguous(mq.store, mq.top_k_per_query) => other = mq.out

\* two queries with different results, the second one ranked first
C16_Witness ==
    /\ mq.pc = "done"
    /\ mq.store = << <<Chunk("x", 1)>>, <<Chunk("y", 2)>> >>
    /\ mq.out = <<Chunk("y", 2), Chunk("x", 1)>>

C21_NoEvidenceIsNoError ==
    [][/\ (/\ pc = "evaluate"
           /\ retrieved_chunks = << >>
           /\ eval_reply'.kind = "object"
           /\ \/ eval_reply'.verdict = "sufficient"
              \/ eval_reply'.verdict = "need_more" /\ hop_count = MaxHops)
          => pc' = "synthesize" /\ retrieved_chunks' = << >>
       /\ (pc = "synthesize" /\ retrieved_chunks = << >>)
          => /\ pc' \in {"plan_research", "generate_latex"}
             /\ ItemId(current_item_index) \in DOMAIN section_drafts'
             /\ current_item_index' = current_item_index + 1]_vars

\* three hops without a fragment, and the item has its draft
C21_Witness ==
    /\ hop_count = MaxHops
    /\ retrieved_chunks = << >>
    /\ calls.retrieve = MaxHops
    /\ current_item_index = 1
    /\ consort_items[1] \in DOMAIN section_drafts
    /\ pc \in {"plan_research", "generate_latex"}

\* C27: first item of a three-item checklist, evaluator replies need_more,
\* need_more, sufficient.  After k need_more replies (k = 1, 2) the item is
\* at its hop k + 1; the third reply is given after exactly 3 retrieve and
\* 2 earlier evaluate executions and leads to synthesize, whose one
\* execution moves the cursor to the second item.
C27_ThreeHops ==
    /\ [](/\ consort_items = ThreeItems
          /\ current_item_index = 0
          /\ only_need_more
          /\ calls.evaluate \in {1, 2}
          => \/ pc = "retrieve" /\ calls.retrieve = calls.evaluate
             \/ pc = "evaluate" /\ calls.retrieve = calls.evaluate + 1
             \/ pc = "raised")
    /\ [][/\ (/\ current_item_index = 0
              /\ pc = "evaluate"
              /\ only_need_more
              /\ calls.evaluate = 2
              /\ eval_reply'.kind = "object"
              /\ eval_reply'.verdict = "sufficient")
             => /\ calls.retrieve = 3
                /\ calls' = [retrieve |-> 3, evaluate |-> 3, web_search |-> 0]
                /\ pc' = "synthesize"
          /\ (current_item_index = 0 /\ pc = "synthesize")
             => /\ current_item_index' = 1
                /\ pc' = "plan_research"
                /\ calls' = calls]_vars

\* the scenario has run: item 1 is done after 3 retrieve and 3 evaluate
C27_Witness ==
    /\ consort_items = ThreeItems
    /\ current_item_index = 1
    /\ pc = "plan_research"
    /\ calls = [retrieve |-> 3, evaluate |-> 3, web_search |-> 0]
    /\ eval_reply = [kind |-> "object", verdict |-> "sufficient"]
    /\ evaluation_result = "sufficient"
    /\ hop_count = 3

\* C28: while an item is being processed (retrieve, evaluate, web_search,
\* synthesize), no step removes a term from web_search_results.
C28_DefinitionsKept ==
    [][(pc \in {"retrieve", "evaluate", "web_search", "synthesize"})
       => (DOMAIN web_search_results \subseteq DOMAIN web_search_results')
      ]_vars

\* a term was hydrated, and the evaluator has been asked again since
C28_Witness ==
    /\ "ANCOVA" \in DOMAIN web_search_results
    /\ calls.web_search >= 2
    /\ unfamiliar_terms = << >>
    /\ pc = "synthesize"

\* C29: every execution of plan_research ends with hop_count 0, no
\* evidence and no unfamiliar term.
C29_PlanResets ==
    [][pc = "plan_research"
       => /\ hop_count' = 0
          /\ retrieved_chunks' = << >>
          /\ unfamiliar_terms' = << >>]_vars

\* the second item has been planned after a first item that used hops and
\* looked up a term
C29_Witness ==
    /\ pc = "retrieve"
    /\ current_item_index = 1
    /\ calls = NoCalls
    /\ hop_count = 0
    /\ retrieved_chunks = << >>
    /\ unfamiliar_terms = << >>
    /\ web_search_results # EmptyDict

\* C30 as stated: plan_research leaves the evidence, the unfamiliar terms,
\* the term definitions and the last verdict as they were.
C30_OnlyHopsAndQueries ==
    [][pc = "plan_research"
       => UNCHANGED <<retrieved_chunks, unfamiliar_terms, web_search_results,
                      evaluation_result>>]_vars

\* C30 amended: of the per-item fields, plan_research leaves only the term
\* definitions as they were; it replaces the query list by the planner's
\* and clears the last verdict (with the hop count, the evidence and the
\* unfamiliar terms); checklist, cursor, drafts and output are untouched.
C30_OnlyDefinitionsKept ==
    [][pc = "plan_research" /\ pc' = "retrieve"
       => /\ web_search_results' = web_search_results
          /\ evaluation_result' = ""
          /\ research_queries' \in {ParseQueries(r) : r \in PlannerReplies}
          /\ hop_count' = 0
          /\ retrieved_chunks' = << >>
          /\ unfamiliar_terms' = << >>
          /\ UNCHANGED <<consort_items, current_item_index, section_drafts,
                         latex_sections, final_latex>>]_vars

\* the second item has been planned: the definitions of the first are
\* still there, its verdict is not
C30_Witness ==
    /\ pc = "retrieve"
    /\ current_item_index = 1
    /\ calls = NoCalls
    /\ evaluation_result = ""
    /\ research_queries = <<RawPlan>>
    /\ "ANCOVA" \in DOMAIN web_search_results
    /\ consort_items[1] \in DOMAIN section_drafts


\* the lines of the given kinds, in document order
LinesOf(parts, kinds) == SelectSeq(parts, LAMBDA l : l.kind \in kinds)

\* the positions in the document of the lines of a kind written for item k
Marks(kind, k) ==
    {n \in 1..Len(lx.parts) : lx.parts[n].kind = kind /\ lx.parts[n].at = k}

\* C22: the body lines (fragment or placeholder) of the document are, in
\* order, one per item handled so far, in input order: the item's fragment
\* when latex_sections has a non-empty one for its id, the placeholder
\* naming the id otherwise; the body loop ends only after the last item.
C22_OneBodyEntryPerItem ==
    lx.pc # "idle" =>
        LET body == LinesOf(lx.parts, {"fragment", "placeholder"})
        IN /\ Len(body) = lx.i
           /\ lx.pc \in {"table", "done"} => lx.i = Len(lx.consort_items)
           /\ \A k \in 1..lx.i :
                LET item == lx.consort_items[k]
                    fragment == DictGet(lx.latex_sections, item.id, "")
                IN body[k] = IF fragment # ""
                             THEN Line("fragment", k, fragment)
                             ELSE Line("placeholder", k, item.id)

\* a finished document for three kinds of item: fragment, empty fragment,
\* no entry
C22_Witness ==
    /\ lx.pc = "done"
    /\ Len(lx.consort_items) = 2
    /\ lx.consort_items[1].id # lx.consort_items[2].id
    /\ DictGet(lx.latex_sections, lx.consort_items[1].id, "") = "latex"
    /\ lx.consort_items[2].id \notin DOMAIN lx.latex_sections
    /\ Marks("fragment", 1) # {}
    /\ Marks("placeholder", 2) # {}

PrevSection(k) == IF k = 1 THEN "" ELSE lx.consort_items[k - 1].section
PrevTopic(k) == IF k = 1 THEN "" ELSE lx.consort_items[k - 1].topic

C24_OneRowPerItem ==
    lx.pc # "idle" =>
        LET rows == LinesOf(lx.parts, {"row"})
        IN /\ Len(rows) = lx.j
           /\ lx.pc = "done" => lx.j = Len(lx.consort_items)
           /\ \A k \in 1..lx.j :
                  rows[k] = Line("row", k, lx.consort_items[k].id)

\* a finished table of two rows, the first item with a fragment and the
\* second without
C24_Witness ==
    /\ lx.pc = "done"
    /\ Len(lx.consort_items) = 2
    /\ DictGet(lx.latex_sections, lx.consort_items[1].id, "") # ""
    /\ DictGet(lx.latex_sections, lx.consort_items[2].id, "") = ""
    /\ Cardinality(Marks("row", 1) \cup Marks("row", 2)) = 2


\* the frames that end a run
Terminal(events) ==
    {n \in 1..Len(events) : events[n].type \in {"complete", "error"}}

\* C25: a request that is over has sent exactly one terminal frame, as its
\* last frame: a complete frame with a document that is not empty, or an
\* error frame with a message.
C25_OneTerminalEvent ==
    sv.pc \in {"closed", "http_error"} =>
        /\ Terminal(sv.events) = {Len(sv.events)}
        /\ LET last == sv.events[Len(sv.events)]
           IN IF last.type = "complete" THEN last.latex # ""
                                        ELSE last.message # ""

\* the progress frames that are about one item: neither of the two frames
\* sent before the run
PerItem(events) ==
    {n \in 1..Len(events) :
        /\ events[n].type = "progress"
        /\ events[n].message \notin {InitialisingMsg, ProcessingMsg}}

\* C26: a stream that ended with the complete frame of a run over n items
\* starts with a progress frame and holds at least n per-item progress
\* frames before the terminal one.
C26_ProgressPerItem ==
    (/\ sv.pc = "closed"
     /\ sv.events[Len(sv.events)].type = "complete")
    => /\ sv.events[1].type = "progress"
       /\ Cardinality(PerItem(sv.events)) >= sv.total


\* C31: after every retrieve step the accumulated evidence is ordered by
\* non-increasing score.
C31_EvidenceSorted ==
    [][(pc = "retrieve" /\ pc' = "evaluate")
       => IsDescending(retrieved_chunks')]_vars

\* the fragments of a store answer that retrieve appends to the evidence
NewFragments(existing, chunks) ==
    SelectSeq(chunks, LAMBDA cd : cd.text \notin TextsOf(existing))

\* C32: a retrieve step keeps the evidence it found as a prefix of the
\* evidence it leaves, and what it appends are the fragments of some
\* answer of the store whose text was not yet present, in the store's order.
C32_EvidencePrefix ==
    [][(pc = "retrieve" /\ pc' = "evaluate")
       => /\ Len(retrieved_chunks) <= Len(retrieved_chunks')
          /\ SubSeq(retrieved_chunks', 1, Len(retrieved_chunks))
                 = retrieved_chunks
          /\ \E chunks \in SearchOutcomes(research_queries) :
                 retrieved_chunks'
                     = retrieved_chunks \o NewFragments(retrieved_chunks,
                                                        chunks)]_vars

\* a third hop has appended one new fragment behind the two of the first
C32_Witness ==
    /\ pc = "evaluate"
    /\ hop_count = 3
    /\ retrieved_chunks = <<Chunk("y", 3), Chunk("x", 1)>>
    /\ calls.retrieve = 3

\* C33: when evaluate sends the item back to retrieve (need_more below the
\* hop ceiling), the query list is the reply's follow-up list if that is
\* not empty and the previous query list otherwise.
C33_FollowUpsReplace ==
    [][(pc = "evaluate" /\ pc' = "retrieve")
       => /\ eval_reply'.verdict = "need_more"
          /\ hop_count < MaxHops
          /\ research_queries' = IF last_follow_ups' # << >>
                                 THEN last_follow_ups'
                                 ELSE research_queries]_vars

\* a first reply gave a follow-up list, a second one gave none: the
\* follow-up list is still the query list of the third hop
C33_Witness ==
    /\ pc = "retrieve"
    /\ calls.evaluate = 2
    /\ last_follow_ups = << >>
    /\ research_queries = <<"follow-up">>

\* C34: hop_count is the number of retrieve steps completed for the
\* current item.  It is 0 after plan_research, every retrieve that returns
\* adds exactly 1, and no other node changes it; a retrieve that raises
\* ends the run with the count of the hops completed before it.
C34_HopCountCountsRetrieves ==
    /\ [](hop_count = IF pc = "raised" /\ calls.retrieve > hop_count
                      THEN calls.retrieve - 1
                      ELSE calls.retrieve)
    /\ [][/\ (pc = "retrieve" /\ pc' = "evaluate")
             => hop_count' = hop_count + 1
          /\ pc \in {"evaluate", "web_search", "synthesize", "generate_latex"}
             => hop_count' = hop_count
          /\ (pc = "plan_research" /\ pc' = "retrieve") => hop_count' = 0
         ]_vars

\* two hops, one of them without any fragment, and a hydration pass since
C34_Witness ==
    /\ hop_count = 2
    /\ calls.retrieve = 2
    /\ calls.web_search = 1
    /\ retrieved_chunks = <<Chunk("x", 2)>>
    /\ pc = "synthesize"

\* C35: over a whole run no step removes a term from web_search_results,
\* and plan_research hands the mapping on as it is, so the definitions of
\* an earlier item are there when a later item is synthesized.
C35_DefinitionsNeverShrink ==
    [][/\ DOMAIN web_search_results \subseteq DOMAIN web_search_results'
       /\ pc = "plan_research" => web_search_results' = web_search_results
      ]_vars

\* the second item is about to be synthesized without a hydration of its
\* own, with the definition looked up for the first
C35_Witness ==
    /\ pc = "synthesize"
    /\ current_item_index = 1
    /\ calls.web_search = 0
    /\ "ANCOVA" \in DOMAIN web_search_results

\* C36: for a checklist with unique ids the keys of section_drafts are the
\* ids of the items before the cursor; only synthesize changes
\* section_drafts or the cursor, and it changes both: cursor + 1 and one
\* new key, the id of the item it was at.
C36_DraftsFollowCursor ==
    /\ [](UniqueIds =>
            DOMAIN section_drafts
                = {consort_items[i] : i \in 1..current_item_index})
    /\ [][(section_drafts' # section_drafts
              \/ current_item_index' # current_item_index)
          => /\ pc = "synthesize"
             /\ current_item_index' = current_item_index + 1
             /\ UniqueIds =>
                  /\ ItemId(current_item_index) \notin DOMAIN section_drafts
                  /\ DOMAIN section_drafts'
                         = DOMAIN section_drafts
                               \cup {ItemId(current_item_index)}]_vars

\* both items of a two-item checklist with unique ids are drafted, the
\* second with an empty draft
C36_Witness ==
    /\ UniqueIds
    /\ Total = 2
    /\ current_item_index = 2
    /\ DOMAIN section_drafts = {consort_items[1], consort_items[2]}
    /\ section_drafts[consort_items[2]] = ""
    /\ pc = "generate_latex"

\* C37: web_search with no unfamiliar term calls no hydrator and leaves the
\* definitions and the verdict (need_web) as they are; with terms it calls
\* the hydrator, keeps the old entries of other terms, gives every term of
\* the call the definition just returned (also when the term had one), and
\* sets the verdict to sufficient.
C37_WebSearchEffect ==
    [][pc = "web_search" =>
         IF unfamiliar_terms = << >>
         THEN /\ ~hydration'.called
              /\ web_search_results' = web_search_results
              /\ evaluation_result' = evaluation_result
              /\ evaluation_result = "need_web"
         ELSE /\ hydration'.called
              /\ DOMAIN hydration'.new_defs
                     = {unfamiliar_terms[i] : i \in 1..Len(unfamiliar_terms)}
              /\ DOMAIN web_search_results'
                     = DOMAIN web_search_results
                           \cup DOMAIN hydration'.new_defs
              /\ \A t \in DOMAIN web_search_results' :
                     web_search_results'[t]
                         = IF t \in DOMAIN hydration'.new_defs
                           THEN hydration'.new_defs[t]
                           ELSE web_search_results[t]
              /\ evaluation_result' = "sufficient"]_vars

\* a term defined for the first item has been looked up again for the
\* second and has the new definition
C37_Witness ==
    /\ pc = "evaluate"
    /\ current_item_index = 1
    /\ calls.web_search = 1
    /\ hydration = [called |-> TRUE,
                    new_defs |-> [t \in {"ANCOVA"} |-> "No definition found"]]
    /\ web_search_results = hydration.new_defs
    /\ evaluation_result = "sufficient"


\* an API call that counts as failed: it raised, or its content is missing
\* or has no character that is not white space
FailedCall(outcome) ==
    \/ outcome.kind \in {"raises", "none"}
    \/ \A n \in 1..Len(outcome.content) : outcome.content[n] = " "

\* C38: generate_section calls the API at most max_retries times.  When it
\* returns, the text is not empty and is the stripped content of its last
\* call, every call before that one failed, and nothing is called after
\* it; an empty answer is a failed call.  It raises only after max_retries
\* calls that all failed.
C38_BoundedRetries ==
    /\ [](gs.pc # "idle" =>
            /\ gs.api_calls <= gs.max_retries
            /\ \A n \in 1..gs.api_calls :
                   n < gs.api_calls => FailedCall(gs.api[n])
            /\ gs.pc = "loop" =>
                   \A n \in 1..gs.api_calls : FailedCall(gs.api[n])
            /\ gs.pc = "returned" =>
                   /\ gs.api_calls >= 1
                   /\ ~FailedCall(gs.api[gs.api_calls])
                   /\ gs.out # << >>
                   /\ gs.out = Strip(gs.api[gs.api_calls].content)
            /\ gs.pc = "raised" =>
                   /\ gs.api_calls = gs.max_retries
                   /\ \A n \in 1..gs.max_retries : FailedCall(gs.api[n]))
    /\ [][gs.pc = "loop"]_vars

\* returned on the third call, after an exception and a blank answer
C38_Witness ==
    /\ gs.pc = "returned"
    /\ gs.max_retries = 3
    /\ gs.api_calls = 3
    /\ gs.api[1].kind = "raises"
    /\ gs.api[2] = [kind |-> "text", content |-> <<" ">>]
    /\ gs.out = <<"a">>


\* C39: with resume, no trial of the loaded checkpoint is generated again;
\* trials_done grows only by the trial whose three documents have just
\* been built, together with the save; after a failure nothing more
\* happens, and the file holds what it held at the start followed by the
\* trials completed in this call; trials_done has no duplicate and not the
\* failed trial.
C39_CheckpointedResume ==
    /\ [](orc.pc \notin {"idle", "load"} /\ orc.resume =>
            /\ \A n \in 1..Len(orc.started) :
                   ~InSeq(orc.started[n], orc.loaded)
            /\ orc.trials_done = orc.loaded \o orc.completed
            /\ orc.file = orc.trials_done
            /\ NoDuplicates(orc.trials_done)
            /\ NoDuplicates(orc.started)
            /\ orc.pc = "raised" =>
                   /\ ~InSeq(orc.failed, orc.trials_done)
                   /\ orc.started = Append(orc.completed, orc.failed))
    /\ [][/\ orc.pc # "raised"
          /\ orc.pc # "load" /\ orc.resume
                 /\ (orc'.trials_done # orc.trials_done
                        \/ orc'.file # orc.file)
             => /\ orc.pc = "trial"
                /\ orc.docs = DocsPerTrial
                /\ orc'.trials_done
                       = Append(orc.trials_done, TrialId(orc.i))
                /\ orc'.file = orc'.trials_done]_vars

\* a resumed run: trial 1 was in the checkpoint, trial 2 was completed and
\* saved, trial 3 failed after its first document
C39_Witness ==
    /\ orc.pc = "raised"
    /\ orc.resume
    /\ orc.loaded = <<1>>
    /\ orc.start_index = 0
    /\ orc.completed = <<2>>
    /\ orc.failed = 3
    /\ orc.docs = 1
    /\ orc.file = <<1, 2>>


\* 0 <= overlap < chunk_size
Advancing == ck.pc # "idle" /\ ck.overlap < ck.chunk_size
\* overlap >= chunk_size, and the text is not blank
Stalling ==
    ck.pc # "idle" /\ ck.overlap >= ck.chunk_size /\ Strip(ck.raw) # << >>

\* the positions of text (1-based) that lie in a returned chunk
Covered ==
    {p \in 1..Len(ck.text) :
        \E n \in 1..Len(ck.chunks) :
            /\ p > ck.chunks[n].from
            /\ p <= ck.chunks[n].from + Len(ck.chunks[n].text)}

\* the parts of C40 that do not depend on which characters are covered:
\* with 0 <= overlap < chunk_size the call ends, start being chunk_size -
\* overlap times the number of passes; with overlap >= chunk_size and a
\* text that is not blank, start never grows, the loop condition stays
\* true and the call never returns.
ChunkLoop ==
    /\ (Advancing /\ ck.pc = "enter") ~> (ck.pc = "done")
    /\ [](Advancing =>
            /\ ck.start = ck.iterations * (ck.chunk_size - ck.overlap)
            /\ ck.iterations <= Len(ck.text))
    /\ [](Stalling /\ ck.pc # "enter" =>
            /\ ck.pc = "loop"
            /\ ck.start <= 0
            /\ ck.start < Len(ck.text))
    /\ [][Stalling => ck'.start <= ck.start]_vars

\* C40 as stated: the loop behaves as above, and every character of the
\* stripped text lies in a returned chunk.
C40_EveryCharacter ==
    /\ ChunkLoop
    /\ [](Advancing /\ ck.pc = "done" => Covered = 1..Len(ck.text))

\* C40 amended: the loop behaves as above, and every character of the
\* stripped text that is not white space lies in a returned chunk; the
\* characters that lie in no chunk are white space.
C40_EveryVisibleCharacter ==
    /\ ChunkLoop
    /\ [](Advancing /\ ck.pc = "done" =>
            \A p \in 1..Len(ck.text) :
                p \notin Covered => ck.text[p] = " ")

\* "a  a" cut into windows of one character: two chunks, the two blanks
\* in none
C40_Witness ==
    /\ ck.pc = "done"
    /\ ck.text = <<"a", " ", " ", "a">>
    /\ ck.chunk_size = 1
    /\ ck.overlap = 0
    /\ Len(ck.chunks) = 2
    /\ Covered = {1, 4}
    /\ ck.iterations = 4

====
